---- MODULE Spec2Model ----
(***************************************************************************)
(* The multi-step form of MultiStepForm.tsx: a wizard of three steps       *)
(* (name, email, age) over one react-hook-form store validated by the zod  *)
(* schema of schema.ts.                                                    *)
(*                                                                         *)
(* State: the step index kept by useState, the store of useForm (values,   *)
(* errors, touched fields, isSubmitted), the invocations of onNext that    *)
(* are suspended at `await methods.trigger(...)`, and the last data that   *)
(* was handed to onSubmit.                                                 *)
(*                                                                         *)
(* onNext is an async function: a click runs it up to its await (onNext),  *)
(* and the rest runs later (onNextResume); other events may be dispatched  *)
(* in between, and nothing in the component prevents a second click.  The  *)
(* handlers of the form library (change, blur, handleSubmit) are taken as  *)
(* one step each.                                                          *)
(*                                                                         *)
(* Strings are sequences of one-character strings, so that length and      *)
(* format checks are computed.  The age value is a record whose kind is    *)
(* "null" (the default), "nan" (an emptied number input) or "number".      *)
(***************************************************************************)
EXTENDS Integers, Sequences, FiniteSets, Bags, TLC

VARIABLES step, values, errors, touchedFields, isSubmitted, pending, delivered

vars == <<step, values, errors, touchedFields, isSubmitted, pending, delivered>>

---------------------------------------------------------------------------
(* Bounds of the model *)

\* at most this many onNext invocations are suspended at their await
MaxPending == 2
\* the direct handler calls of SpecHandlers keep the step index above/below
MinStepDist == 1
MaxStepDist == 1

---------------------------------------------------------------------------
(* schema.ts *)

NoError == "none"

SchemaFields == {"name", "email", "age"}

MinNameLen == 2
MinAge == 18

\* z.string().min(2, 'Name too short')
NameError(v) == IF Len(v) < MinNameLen THEN "Name too short" ELSE NoError

Letters == {"a", "b", "c", "o", "A", "l"}

\* the format z.string().email() accepts: local@label(.label)*.tld, no empty
\* part, no leading, trailing or doubled dot, a top-level name of >= 2 letters
IsEmail(v) ==
    LET ats == {i \in 1..Len(v) : v[i] = "@"} IN
    /\ Cardinality(ats) = 1
    /\ LET at     == CHOOSE i \in ats : TRUE
           local  == SubSeq(v, 1, at - 1)
           domain == SubSeq(v, at + 1, Len(v))
           dots   == {i \in 1..Len(domain) : domain[i] = "."}
       IN  /\ Len(local) >= 1
           /\ local[1] # "."
           /\ \A i \in 1..Len(local) - 1 : ~(local[i] = "." /\ local[i + 1] = ".")
           /\ local[Len(local)] # "."
           /\ dots # {}
           /\ domain[1] # "."
           /\ \A i \in dots : i + 1 \notin dots
           /\ LET last == CHOOSE i \in dots : \A j \in dots : j <= i
              IN  /\ Len(domain) - last >= 2
                  /\ \A i \in last + 1..Len(domain) : domain[i] \in Letters

\* z.string().email('Invalid email')
EmailError(v) == IF IsEmail(v) THEN NoError ELSE "Invalid email"

\* z.number().min(18, 'Must be at least 18'): the type check comes first
AgeError(v) ==
    IF v.kind = "null" THEN "Expected number, received null"
    ELSE IF v.kind = "nan" THEN "Expected number, received nan"
    ELSE IF v.n < MinAge THEN "Must be at least 18"
    ELSE NoError

FieldError(f, v) ==
    CASE f = "name"  -> NameError(v)
      [] f = "email" -> EmailError(v)
      [] f = "age"   -> AgeError(v)

\* zodResolver(formSchema): the whole values object is parsed; one entry per
\* field, NoError where the field passes
zodResolver(vals) == [f \in SchemaFields |-> FieldError(f, vals[f])]

---------------------------------------------------------------------------
(* Step3.jsx: register("age", { valueAsNumber: true }) *)

Digits == <<"0", "1", "2", "3", "4", "5", "6", "7", "8", "9">>

DigitValue(c) == (CHOOSE d \in 1..10 : Digits[d] = c) - 1

RECURSIVE ParseNumber(_)
ParseNumber(text) ==
    IF text = <<>> THEN 0
    ELSE 10 * ParseNumber(SubSeq(text, 1, Len(text) - 1)) + DigitValue(text[Len(text)])

Null == [kind |-> "null", n |-> 0]
NaN == [kind |-> "nan", n |-> 0]

\* an empty number input gives NaN, digits give their number
valueAsNumber(text) ==
    IF text = <<>> THEN NaN ELSE [kind |-> "number", n |-> ParseNumber(text)]

\* the value a change event of field f stores for the typed text
FieldValue(f, text) == IF f = "age" THEN valueAsNumber(text) ELSE text

---------------------------------------------------------------------------
(* What the user can type *)

NameInputs == {<<>>, <<"A">>, <<"A", "l">>}
EmailInputs == {<<>>, <<"a", "@", "b">>, <<"a", "@", "b", ".", "c", "o">>}
AgeInputs == {<<>>, <<"1", "7">>, <<"1", "8">>}

Inputs(f) ==
    CASE f = "name"  -> NameInputs
      [] f = "email" -> EmailInputs
      [] f = "age"   -> AgeInputs

---------------------------------------------------------------------------
(* MultiStepForm.tsx *)

steps == <<"Basic Info", "Contact", "Age">>

totalSteps == Len(steps)

\* mutant: the last row repeats the email row, the age field is in no step
fieldsPerStep_dup == << <<"name">>, <<"email">>, <<"email">> >>

\* the table of onNext, indexed by the step (0-based in the code)
fieldsPerStep == << <<"name">>, <<"email">>, <<"age">> >>

\* the field each step component registers (Step1, Step2, Step3)
stepComponents == <<"name", "email", "age">>

\* fieldsPerStep[s]: undefined outside the table
StepFields(s) ==
    IF s \in 0..Len(fieldsPerStep) - 1
    THEN {fieldsPerStep[s + 1][i] : i \in 1..Len(fieldsPerStep[s + 1])}
    ELSE {}

\* the names methods.trigger(fieldsPerStep[s]) validates: all fields when the
\* argument is undefined
TriggerNames(s) ==
    IF s \in 0..Len(fieldsPerStep) - 1 THEN StepFields(s) ELSE SchemaFields

\* stepComponents[step] is rendered: the input of field f is on screen
Mounted(f) == step \in 0..Len(stepComponents) - 1 /\ stepComponents[step + 1] = f

defaultValues == [name |-> <<>>, email |-> <<>>, age |-> Null]

Init ==
    /\ step = 0
    /\ values = defaultValues
    /\ errors = [f \in SchemaFields |-> NoError]
    /\ touchedFields = [f \in SchemaFields |-> FALSE]
    /\ isSubmitted = FALSE
    /\ pending = EmptyBag
    /\ delivered = <<>>

\* mutant: mode "onChange", every change event validates its field
ChangeValidates_always(f) == TRUE

\* mode "onTouched", reValidateMode "onChange" (default): a change event
\* validates its field once the field was blurred or the form was submitted
ChangeValidates(f) == isSubmitted \/ touchedFields[f]

\* a blur event validates its field until the form was submitted
BlurValidates == ~isSubmitted

\* mutant: a validating change event stores the resolver's whole result
Edit_wholesale(f, text) ==
    /\ Mounted(f)
    /\ values' = [values EXCEPT ![f] = FieldValue(f, text)]
    /\ errors' = IF ChangeValidates(f) THEN zodResolver(values') ELSE errors
    /\ UNCHANGED <<step, touchedFields, isSubmitted, pending, delivered>>

\* change event of the mounted input of f
Edit(f, text) ==
    /\ Mounted(f)
    /\ values' = [values EXCEPT ![f] = FieldValue(f, text)]
    /\ errors' = IF ChangeValidates(f)
                 THEN [errors EXCEPT ![f] = zodResolver(values')[f]]
                 ELSE errors
    /\ UNCHANGED <<step, touchedFields, isSubmitted, pending, delivered>>

\* blur event of the mounted input of f
Blur(f) ==
    /\ Mounted(f)
    /\ touchedFields' = [touchedFields EXCEPT ![f] = TRUE]
    /\ errors' = IF BlurValidates
                 THEN [errors EXCEPT ![f] = zodResolver(values)[f]]
                 ELSE errors
    /\ UNCHANGED <<step, values, isSubmitted, pending, delivered>>

\* the result methods.trigger(names) resolves to: the resolver's entries of
\* the names, computed from the values at the call
TriggerResult(names) == [f \in names |-> zodResolver(values)[f]]

\* onNext up to its await: the trigger of the rendered step's fields starts
onNext ==
    /\ BagCardinality(pending) < MaxPending
    /\ pending' = pending (+) SetToBag({[at |-> step, result |-> TriggerResult(TriggerNames(step))]})
    /\ UNCHANGED <<step, values, errors, touchedFields, isSubmitted, delivered>>

\* mutant: trigger replaces the error object by the outcome of the validated names
ApplyResult_replace(errs, result) ==
    [f \in SchemaFields |-> IF f \in DOMAIN result THEN result[f] ELSE NoError]

\* trigger stores the outcome of each validated name and leaves the others
ApplyResult(errs, result) ==
    [f \in SchemaFields |-> IF f \in DOMAIN result THEN result[f] ELSE errs[f]]

\* const valid = await methods.trigger(...)
Valid(result) == \A f \in DOMAIN result : result[f] = NoError

\* mutant: the step advances whatever the validation said
StepAfterNext_always(prev, valid) == prev + 1

\* if (valid) setStep((prev) => prev + 1)
StepAfterNext(prev, valid) == IF valid THEN prev + 1 ELSE prev

\* onNext from its await on, for the suspended invocation p
onNextResume(p) ==
    /\ BagIn(p, pending)
    /\ pending' = pending (-) SetToBag({p})
    /\ errors' = ApplyResult(errors, p.result)
    /\ step' = StepAfterNext(step, Valid(p.result))
    /\ UNCHANGED <<values, touchedFields, isSubmitted, delivered>>

\* mutant: Back validates the step it leaves and stays when it is invalid
onBack_validated ==
    /\ errors' = ApplyResult(errors, TriggerResult(TriggerNames(step)))
    /\ step' = IF Valid(TriggerResult(TriggerNames(step))) THEN step - 1 ELSE step
    /\ UNCHANGED <<values, touchedFields, isSubmitted, pending, delivered>>

\* mutant: Back resets the store to its defaults
onBack_reset ==
    /\ step' = step - 1
    /\ values' = defaultValues
    /\ errors' = [f \in SchemaFields |-> NoError]
    /\ UNCHANGED <<touchedFields, isSubmitted, pending, delivered>>

\* const onBack = () => setStep((prev) => prev - 1)
onBack ==
    /\ step' = step - 1
    /\ UNCHANGED <<values, errors, touchedFields, isSubmitted, pending, delivered>>

\* mutant: Submit validates the fields of the shown step only
handleSubmit_visible ==
    /\ errors' = ApplyResult(errors, TriggerResult(TriggerNames(step)))
    /\ isSubmitted' = TRUE
    /\ delivered' = IF Valid(TriggerResult(TriggerNames(step)))
                    THEN <<[data |-> values, at |-> step]>>
                    ELSE delivered
    /\ UNCHANGED <<step, values, touchedFields, pending>>

\* mutant: Submit adds the new errors and keeps the old entry of a field that
\* passes
handleSubmit_merge ==
    /\ errors' = [f \in SchemaFields |->
                    IF zodResolver(values)[f] # NoError THEN zodResolver(values)[f]
                    ELSE errors[f]]
    /\ isSubmitted' = TRUE
    /\ delivered' = IF Valid(zodResolver(values))
                    THEN <<[data |-> values, at |-> step]>>
                    ELSE delivered
    /\ UNCHANGED <<step, values, touchedFields, pending>>

\* methods.handleSubmit(onSubmit): validate the whole form, store all errors,
\* call onSubmit(data) when there is none
handleSubmit ==
    /\ errors' = zodResolver(values)
    /\ isSubmitted' = TRUE
    /\ delivered' = IF Valid(errors')
                    THEN <<[data |-> values, at |-> step]>>
                    ELSE delivered
    /\ UNCHANGED <<step, values, touchedFields, pending>>

\* {step > 0 && <button onClick={onBack}>}
BackOffered == step > 0

\* mutant: the comparison is off by one, the last Next is replaced by Submit
NextOffered_offByOne == step < Len(steps) - 2

\* {step < steps.length - 1 ? <button onClick={onNext}> : <button type="submit">}
NextOffered == step < Len(steps) - 1

SubmitOffered == ~NextOffered

BackClick == BackOffered /\ onBack

NextClick == NextOffered /\ onNext

SubmitClick == SubmitOffered /\ handleSubmit

\* Enter in the only input of the form submits the form (implicit submission)
EnterKey == (\E f \in SchemaFields : Mounted(f)) /\ handleSubmit

EditAny == \E f \in SchemaFields : \E text \in Inputs(f) : Edit(f, text)

BlurAny == \E f \in SchemaFields : Blur(f)

ResumeAny == \E p \in BagToSet(pending) : onNextResume(p)

Next ==
    \/ EditAny
    \/ BlurAny
    \/ NextClick
    \/ ResumeAny
    \/ BackClick
    \/ SubmitClick
    \/ EnterKey

Spec == Init /\ [][Next]_vars

---------------------------------------------------------------------------
(* The handlers called directly, without the guards of the rendered buttons *)

NextCall == step < totalSteps - 1 + MaxStepDist /\ onNext

BackCall == step > -MinStepDist /\ onBack

HandlerCalls ==
    \/ EditAny
    \/ NextCall
    \/ ResumeAny
    \/ BackCall

SpecHandlers == Init /\ [][HandlerCalls]_vars

---------------------------------------------------------------------------
(* A session of a user who fills the form in: a field is edited only while  *)
(* its value fails the schema, Back is used only to return to a step whose   *)
(* field is still invalid (or from beyond the last step), and the buttons    *)
(* are clicked as the view offers them.  The continuations of onNext run     *)
(* (weak fairness of ResumeAny: a resolved promise's continuation is always  *)
(* run); the other fairness conditions say that the user goes on.            *)

Invalid(f) == FieldError(f, values[f]) # NoError

SessionEdit ==
    \E f \in SchemaFields : \E text \in Inputs(f) : Invalid(f) /\ Edit(f, text)

SessionEditValid ==
    \E f \in SchemaFields : \E text \in Inputs(f) :
        Invalid(f) /\ FieldError(f, FieldValue(f, text)) = NoError /\ Edit(f, text)

SessionBack ==
    /\ \/ step >= totalSteps
       \/ \E s \in 0..step - 1 : \E f \in StepFields(s) : Invalid(f)
    /\ BackClick

SessionNext ==
    \/ SessionEdit
    \/ BlurAny
    \/ NextClick
    \/ ResumeAny
    \/ SessionBack
    \/ SubmitClick

SpecSession ==
    /\ Init
    /\ [][SessionNext]_vars
    /\ WF_vars(ResumeAny)
    /\ WF_vars(SessionEditValid)
    /\ WF_vars(NextClick)
    /\ WF_vars(SessionBack)
    /\ WF_vars(SubmitClick)

---------------------------------------------------------------------------
(* Properties *)

\* C1: in every reachable state the step index satisfies
\* 0 <= currentStep < totalSteps.
C1_StepInRange == 0 <= step /\ step < totalSteps

\* C2: a Next whose validation leaves an error on a field of its step does not
\* change currentStep; a Next whose step's fields are all valid advances
\* currentStep by exactly one.
C2_NextAdvancesByOneIffValid ==
    [][\A p \in BagToSet(pending) :
          onNextResume(p) =>
              IF \E f \in StepFields(p.at) : errors'[f] # NoError
              THEN step' = step
              ELSE step' = step + 1]_vars

\* C2 witness: step 1 was reached by a Next that passed on step 0, and a Next
\* on step 1 failed and stored the email error (the field was never blurred and
\* the form never submitted, so only Next can have stored it).
C2_Witness ==
    /\ step = 1
    /\ errors["email"] = "Invalid email"
    /\ ~touchedFields["email"]
    /\ ~isSubmitted
    /\ pending = EmptyBag

\* C3: Back is enabled whenever currentStep > 0, and it sets currentStep to
\* currentStep - 1 without running a validation: no error entry changes and no
\* trigger is started, whatever the values and errors are.
C3_BackDecrementsNoValidation ==
    /\ [](step > 0 => ENABLED BackClick)
    /\ [][BackClick => step' = step - 1 /\ errors' = errors /\ pending' = pending]_vars

\* C3 witness: the form is on step 0 while the email, edited on step 1, is
\* invalid and carries its error: Back left an invalid step.
C3_Witness ==
    /\ step = 0
    /\ values["email"] = <<"a", "@", "b">>
    /\ errors["email"] = "Invalid email"

\* C4: Submit hands the values to onSubmit if and only if every field of the
\* schema passes; when a field fails, onSubmit is not called, currentStep is
\* unchanged and at least one error is stored.
C4_SubmitIffAllValid ==
    [][handleSubmit =>
          LET ok == \A f \in SchemaFields : FieldError(f, values[f]) = NoError IN
          /\ ok => delivered' = <<[data |-> values, at |-> step]>>
          /\ ~ok => /\ delivered' = delivered
                    /\ step' = step
                    /\ \E f \in SchemaFields : errors'[f] # NoError]_vars

\* C4 witness: onSubmit received the three valid values on the last step.
C4_Witness ==
    /\ delivered # <<>>
    /\ delivered[1].at = totalSteps - 1
    /\ delivered[1].data = values
    /\ values["age"] = [kind |-> "number", n |-> 18]

\* C5: onBack called at step 0 and onNext called at the last step leave
\* currentStep unchanged.
C5_HandlersGuardThemselves ==
    [][/\ (step = 0 /\ onBack) => step' = step
       /\ \A p \in BagToSet(pending) :
             (p.at = totalSteps - 1 /\ onNextResume(p)) => step' = step]_vars

\* C6: a change or blur event of a field leaves the stored error of every
\* other field as it was.
C6_EditKeepsOtherErrors ==
    [][\A f \in SchemaFields :
          ((\E text \in Inputs(f) : Edit(f, text)) \/ Blur(f)) =>
              \A g \in SchemaFields \ {f} : errors'[g] = errors[g]]_vars

\* C6 witness: on step 0, after a failed submit stored errors for email and
\* age, the name was edited to a valid value and its own error cleared.
C6_Witness ==
    /\ step = 0
    /\ values["name"] = <<"A", "l">>
    /\ errors["name"] = NoError
    /\ errors["email"] = "Invalid email"
    /\ errors["age"] = "Expected number, received null"

\* C7: the validation of a Next started on step s changes the error entries of
\* the fields of step s only; the values and the error entries of all other
\* fields are unchanged, whether the Next advances or not.
C7_NextKeepsOtherFields ==
    [][\A p \in BagToSet(pending) :
          onNextResume(p) =>
              /\ values' = values
              /\ \A g \in SchemaFields \ StepFields(p.at) : errors'[g] = errors[g]]_vars

\* C7 witness: a Next passed on step 0 while email and age carried the errors
\* of an earlier failed submit, and those errors are still stored on step 1.
C7_Witness ==
    /\ step = 1
    /\ pending = EmptyBag
    /\ errors["name"] = NoError
    /\ errors["email"] = "Invalid email"
    /\ errors["age"] = "Expected number, received null"
    /\ values["email"] = <<>>

\* C8: Back changes nothing but currentStep: values, errors and touched fields
\* are as they were.
C8_BackKeepsStore ==
    [][BackClick =>
          /\ values' = values
          /\ errors' = errors
          /\ touchedFields' = touchedFields
          /\ isSubmitted' = isSubmitted]_vars

\* C8 witness: on step 1 the age set on step 2 and its error are still stored.
C8_Witness ==
    /\ step = 1
    /\ values["age"] = [kind |-> "number", n |-> 17]
    /\ errors["age"] = "Must be at least 18"
    /\ values["email"] = <<"a", "@", "b", ".", "c", "o">>

\* the positions <<step row, column>> of the step-to-fields table
TableEntries ==
    UNION {{<<s, i>> : i \in 1..Len(fieldsPerStep[s])} : s \in 1..Len(fieldsPerStep)}

\* C9: the fields of steps 0..2 together are the fields of the schema (the
\* fields the store holds), and each schema field is listed exactly once in the
\* table.
C9_StepsPartitionSchema ==
    /\ UNION {StepFields(s) : s \in 0..totalSteps - 1} = SchemaFields
    /\ DOMAIN values = SchemaFields
    /\ \A f \in SchemaFields :
          Cardinality({e \in TableEntries : fieldsPerStep[e[1]][e[2]] = f}) = 1

\* C9 witness: the last step is shown after the Nexts of steps 0 and 1 each
\* validated the field the table lists for them.
C9_Witness ==
    /\ step = totalSteps - 1
    /\ pending = EmptyBag
    /\ \A s \in 0..step - 1 : \A f \in StepFields(s) : FieldError(f, values[f]) = NoError

\* C10: onSubmit is called only while currentStep = totalSteps - 1.
C10_SubmitOnlyOnLastStep == delivered # <<>> => delivered[1].at = totalSteps - 1

\* the message each field's declared constraint carries in schema.ts
DeclaredMessage(f) ==
    CASE f = "name"  -> "Name too short"
      [] f = "email" -> "Invalid email"
      [] f = "age"   -> "Must be at least 18"

\* C11: a validation run of the whole form stores, for every field, the message
\* of the field's declared constraint when the value fails it and no error when
\* the value passes, whatever the value is (the defaults included).
C11_FirstFailingDeclaredMessage ==
    [][handleSubmit =>
          \A f \in SchemaFields :
              errors'[f] = IF FieldError(f, values[f]) = NoError
                           THEN NoError
                           ELSE DeclaredMessage(f)]_vars

\* C12: at most one invocation of onNext is in progress at any time: no Next
\* is started while another Next's validation is pending.
C12_AtMostOneNextInProgress == BagCardinality(pending) <= 1

\* C13: currentStep moves from k to k + 1 only when the Next that moves it
\* validated the fields of step k, that is, was started while currentStep = k.
C13_AdvanceOnlyByOwnStepValidation ==
    [][\A p \in BagToSet(pending) :
          (onNextResume(p) /\ step' = step + 1) => p.at = step]_vars

\* C14 as stated: a field edit changes no error entry at all.
C14_EditChangesNoError ==
    [][\A f \in SchemaFields : \A text \in Inputs(f) :
          Edit(f, text) => errors' = errors]_vars

\* C14 amended: a field edit stores the typed value (for age, the number the
\* text converts to, NaN when the input is empty) and changes no other value;
\* it changes no error entry while the field was never blurred and the form
\* never submitted, and from then on it overwrites the edited field's own entry
\* with the outcome of validating the new value, and no other entry.
C14_EditRevalidatesOwnFieldOnceTouched ==
    [][\A f \in SchemaFields : \A text \in Inputs(f) :
          Edit(f, text) =>
              LET new == IF f = "age" THEN valueAsNumber(text) ELSE text IN
              /\ values'[f] = new
              /\ \A g \in SchemaFields \ {f} : values'[g] = values[g] /\ errors'[g] = errors[g]
              /\ errors'[f] = IF isSubmitted \/ touchedFields[f]
                              THEN FieldError(f, new)
                              ELSE errors[f]]_vars

\* C14 witness: on the last step, after a submit that failed and stored errors,
\* no error is left and nothing was delivered: edits made after the submit
\* cleared the entries of the fields they corrected.
C14_Witness ==
    /\ step = totalSteps - 1
    /\ isSubmitted
    /\ delivered = <<>>
    /\ pending = EmptyBag
    /\ \A f \in SchemaFields : errors[f] = NoError /\ ~touchedFields[f]

\* C15: a Submit that fails stores an error for every field that fails,
\* whichever step owns it, and leaves no error on a field that passes.
C15_FailedSubmitStoresAllErrors ==
    [][(handleSubmit /\ \E f \in SchemaFields : FieldError(f, values[f]) # NoError) =>
          \A f \in SchemaFields :
              (errors'[f] # NoError) <=> (FieldError(f, values[f]) # NoError)]_vars

\* C15 witness: a Submit on the last step failed and stored the error of the
\* age shown there and the error of the email of step 1, and none for the name.
C15_Witness ==
    /\ step = totalSteps - 1
    /\ isSubmitted
    /\ pending = EmptyBag
    /\ errors["name"] = NoError
    /\ errors["email"] = "Invalid email"
    /\ errors["age"] = "Must be at least 18"
    /\ \A f \in SchemaFields : ~touchedFields[f]

\* C16: in a session in which the user sets valid values and clicks Next and
\* Submit, onSubmit is eventually called with the three valid values of the
\* store; and no state with three valid values is stuck: a Next, a pending
\* Next's continuation or a Submit is enabled.
C16_SessionCompletes ==
    /\ <>(/\ delivered # <<>>
          /\ delivered[1].data = values
          /\ \A f \in SchemaFields : ~Invalid(f))
    /\ []((\A f \in SchemaFields : ~Invalid(f)) =>
             (ENABLED NextClick \/ ENABLED ResumeAny \/ ENABLED SubmitClick))

\* C16 witness: the session is complete: onSubmit received the stored values,
\* all valid, no Next is pending and no error is stored.
C16_Witness ==
    /\ delivered # <<>>
    /\ delivered[1].data = values
    /\ isSubmitted
    /\ pending = EmptyBag
    /\ \A f \in SchemaFields : ~Invalid(f) /\ errors[f] = NoError

====
